---- MODULE Spec2Model ----
(***************************************************************************)
(* A model of the hrm-profile-tool decoding core: the byte-layout          *)
(* addressing of package profile, the record decoders and the              *)
(* disassembler of package instructions.  Every function of the Go code    *)
(* is an operator computed the way the code computes it; a specification   *)
(* draws the arguments of a call in Init and one action per function       *)
(* applies it.                                                             *)
(***************************************************************************)
EXTENDS Integers, Sequences, FiniteSets, TLC

VARIABLES
    pc,      \* "call" before the function has run, "done" after it returned
    call,    \* the function called and its arguments
    ret,     \* what the call returned (meaningful when pc = "done")
    reader   \* the stream a decoder reads from: its bytes and its cursor

vars == <<pc, call, ret, reader>>

(***************************************************************************)
(* Bounds of the model.                                                    *)
(***************************************************************************)
MaxProfile == 1         \* profile numbers 0..MaxProfile are passed in
MaxInstr == 4           \* raw instruction sequences have 0..MaxInstr slots
MaxEntries == 4         \* a raw comment passed to DecodeComments has 0..MaxEntries entries
MaxRawComments == 1     \* DecodeComments is passed 0..MaxRawComments raw comments
MaxRecords == 2         \* an instruction stream declares 0..MaxRecords records
MaxStart == 1           \* a decoder starts at stream offset 0..MaxStart
MaxShort == 4           \* a short Read returns MaxShort bytes less than a record
MaxComments == 2        \* a comment block declares 0..MaxComments comments
MaxCount == 2           \* small entry counts 0..MaxCount, beside the slot capacity
MaxTail == 16           \* a comment stream ends 0..MaxTail bytes after a slot boundary
MaxLabels == 703        \* NextLabel is applied along the labels of rank 1..MaxLabels
MaxCutFloor == 0        \* a profile stream ends in floor 0..MaxCutFloor or in the last floor
MaxCut == 12            \* a profile stream ends 0..MaxCut bytes after the start of a block
MaxFile == 6            \* the file under a SeekableBufferedReader has 0..MaxFile bytes
BufSize == 3            \* size of the buffer of the bufio.Reader (4096 in the library)
MaxLen == 4             \* Read is passed a slice of 0..MaxLen bytes
MaxOff == 2             \* Seek offsets are within MaxOff of the start, the cursor or the end

(***************************************************************************)
(* Helpers for Go values.                                                  *)
(***************************************************************************)
Min(a, b) == IF a < b THEN a ELSE b

\* A stream that no call reads.
NoReader ==
    [start |-> 0, words |-> <<>>, fill |-> 0, size |-> 0, pos |-> 0, far |-> 0, cap |-> 0]

(***************************************************************************)
(* package profile: byte-layout addressing.                                *)
(***************************************************************************)
FILE_HEADER_OFFSET == 0
FILE_HEADER_SIZE == 36
FLOOR_HEADER_SIZE == 40
FLOOR_TAB_SIZE == 46252
INSTRUCTIONS_SIZE == 4100

numFloors == 36

missingFloors == <<5, 15, 18, 27, 33, -1>>

floorToIdx == (36 :> 39) @@ (37 :> 36) @@ (38 :> 40) @@ (39 :> 37) @@ (40 :> 41) @@ (41 :> 38)

\* init(): idxToFloor[floorToIdx[key]] = key for every key of floorToIdx
idxToFloor ==
    [v \in {floorToIdx[k] : k \in DOMAIN floorToIdx} |->
        CHOOSE k \in DOMAIN floorToIdx : floorToIdx[k] = v]

\* The value of i when `for i, missingFloor = range missingFloors` ends:
\* the 0-based index of the first element the loop breaks on, or the last
\* index when it never breaks.  breaks is the set of 0-based indexes at
\* which the condition of the break holds.
BreakIndex(breaks) ==
    IF breaks = {} THEN Len(missingFloors) - 1
    ELSE CHOOSE i \in breaks : \A j \in breaks : i <= j

MissingIndexes == 0..(Len(missingFloors) - 1)

FloorToIndex_NoTable(floor) ==
    floor - BreakIndex({i \in MissingIndexes : floor < missingFloors[i + 1]}) - 1

FloorToIndex(floor) ==
    LET adjusted == IF floor \in DOMAIN floorToIdx THEN floorToIdx[floor] ELSE floor
        i == BreakIndex({k \in MissingIndexes : adjusted < missingFloors[k + 1]})
    IN  adjusted - i - 1

IndexToFloor_NoTable(index) ==
    index + BreakIndex({k \in MissingIndexes : index < missingFloors[k + 1] - 1 - k}) + 1

IndexToFloor(index) ==
    LET i == BreakIndex({k \in MissingIndexes : index < missingFloors[k + 1] - 1 - k})
        floor == index + i + 1
    IN  IF floor \in DOMAIN idxToFloor THEN idxToFloor[floor] ELSE floor

FloorStartAddr_NoHeader(profile, floorIndex) ==
    FILE_HEADER_OFFSET + floorIndex * (FLOOR_HEADER_SIZE + FLOOR_TAB_SIZE * 3)

FloorStartAddr(profile, floorIndex) ==
    FILE_HEADER_OFFSET + FILE_HEADER_SIZE
        + floorIndex * (FLOOR_HEADER_SIZE + FLOOR_TAB_SIZE * 3)

TabStartAddr(profile, floorIndex, tab) ==
    FloorStartAddr(profile, floorIndex) + FLOOR_HEADER_SIZE + FLOOR_TAB_SIZE * tab

\* The in-game floor numbers that have on-disk data.
LastFloor == numFloors + Len(missingFloors) - 1
GameFloors == (1..LastFloor) \ {missingFloors[k] : k \in 1..Len(missingFloors)}
FloorIndexes == 0..(numFloors - 1)
Tabs == 0..2

AddrCalls ==
    {[fn |-> "FloorToIndex", floor |-> n] : n \in GameFloors}
    \cup {[fn |-> "IndexToFloor", index |-> i] : i \in FloorIndexes}
    \cup {[fn |-> "FloorStartAddr", profile |-> p, floorIndex |-> f] :
            p \in 0..MaxProfile, f \in FloorIndexes}
    \cup {[fn |-> "TabStartAddr", profile |-> p, floorIndex |-> f, tab |-> t] :
            p \in 0..MaxProfile, f \in FloorIndexes, t \in Tabs}

InitAddr ==
    /\ pc = "call"
    /\ call \in AddrCalls
    /\ ret = 0
    /\ reader = NoReader

CallFloorToIndex ==
    /\ pc = "call" /\ call.fn = "FloorToIndex"
    /\ ret' = FloorToIndex(call.floor)
    /\ pc' = "done"
    /\ UNCHANGED <<call, reader>>

CallIndexToFloor ==
    /\ pc = "call" /\ call.fn = "IndexToFloor"
    /\ ret' = IndexToFloor(call.index)
    /\ pc' = "done"
    /\ UNCHANGED <<call, reader>>

CallFloorStartAddr ==
    /\ pc = "call" /\ call.fn = "FloorStartAddr"
    /\ ret' = FloorStartAddr(call.profile, call.floorIndex)
    /\ pc' = "done"
    /\ UNCHANGED <<call, reader>>

CallTabStartAddr ==
    /\ pc = "call" /\ call.fn = "TabStartAddr"
    /\ ret' = TabStartAddr(call.profile, call.floorIndex, call.tab)
    /\ pc' = "done"
    /\ UNCHANGED <<call, reader>>

NextAddr ==
    \/ CallFloorToIndex
    \/ CallIndexToFloor
    \/ CallFloorStartAddr
    \/ CallTabStartAddr

SpecAddr == InitAddr /\ [][NextAddr]_vars

Returned(fn) == pc = "done" /\ call.fn = fn

(***************************************************************************)
(* C1: for every in-game floor number n that has on-disk data,             *)
(* IndexToFloor(FloorToIndex(n)) = n.                                      *)
(***************************************************************************)
C1_FloorRoundTrip ==
    Returned("FloorToIndex") => IndexToFloor(ret) = call.floor

\* A floor of the permuted block 36..41 has been mapped to its index.
C1_Witness ==
    Returned("FloorToIndex") /\ call.floor = 37 /\ ret = 30

(***************************************************************************)
(* C2: for every on-disk floor index i in 0..numFloors-1,                  *)
(* FloorToIndex(IndexToFloor(i)) = i, and IndexToFloor(i) is a floor that  *)
(* has on-disk data: the two functions are inverse bijections between the  *)
(* 36 floors with data and the indices 0..35.                              *)
(***************************************************************************)
C2_IndexRoundTrip ==
    Returned("IndexToFloor") =>
        /\ ret \in GameFloors
        /\ FloorToIndex(ret) = call.index
        /\ {FloorToIndex(n) : n \in GameFloors} = FloorIndexes

\* An index of the permuted block has been mapped back to its floor.
C2_Witness ==
    Returned("IndexToFloor") /\ call.index = 33 /\ ret = 36

(***************************************************************************)
(* C3: FloorStartAddr(p, f) = 36 + f*(40 + 3*46252) and                    *)
(* TabStartAddr(p, f, t) = FloorStartAddr(p, f) + 40 + t*46252, so that    *)
(* consecutive tabs of a floor are 46252 bytes apart, whatever p is.       *)
(***************************************************************************)
C3_Addresses ==
    /\ Returned("FloorStartAddr") =>
            ret = 36 + call.floorIndex * (40 + 3 * 46252)
    /\ Returned("TabStartAddr") =>
            /\ ret = 36 + call.floorIndex * (40 + 3 * 46252) + 40 + call.tab * 46252
            /\ ret = FloorStartAddr(call.profile, call.floorIndex) + 40 + call.tab * 46252
            /\ call.tab + 1 \in Tabs =>
                    TabStartAddr(call.profile, call.floorIndex, call.tab + 1) = ret + 46252
            /\ \A p \in 0..MaxProfile :
                    TabStartAddr(p, call.floorIndex, call.tab) = ret

\* The address of the middle tab of the last floor has been computed.
C3_Witness ==
    Returned("TabStartAddr") /\ call.floorIndex = 35 /\ call.tab = 1
        /\ call.profile = 1 /\ ret = 4904188

(***************************************************************************)
(* package instructions: opcodes, labels and the disassembler.             *)
(***************************************************************************)
OP_INBOX == 0
OP_OUTBOX == 1
OP_COPY_FROM == 2
OP_COPY_TO == 3
OP_ADD == 4
OP_SUB == 5
OP_BUMP_MINUS == 6
OP_BUMP_PLUS == 7
OP_JUMP == 8
OP_JUMP_ZERO == 9
OP_JUMP_NEG == 10
OP_JUMP_TGT == 13
MODE_DIRECT == 1
MODE_INDIRECT == 2

InstrunctionMnemonics ==
    {OP_INBOX, OP_OUTBOX, OP_COPY_FROM, OP_COPY_TO, OP_ADD, OP_SUB,
     OP_BUMP_MINUS, OP_BUMP_PLUS, OP_JUMP, OP_JUMP_ZERO, OP_JUMP_NEG}

InstructionsWithArg ==
    {OP_COPY_FROM, OP_COPY_TO, OP_ADD, OP_SUB, OP_BUMP_MINUS, OP_BUMP_PLUS}

InstructionsWithLabel_NoJumpNeg == {OP_JUMP, OP_JUMP_ZERO}

InstructionsWithLabel == {OP_JUMP, OP_JUMP_ZERO, OP_JUMP_NEG}

\* A label is a Go string of lowercase letters, held as the sequence of its
\* bytes: "a" is <<97>>, "ab" is <<97, 98>>, "" is <<>>.
CharA == 97
CharZ == 122

RECURSIVE NextLabelLoop(_, _, _, _)
NextLabelLoop(label, i, carry, new_label) ==
    IF i < 1
    THEN IF carry = 1 THEN <<CharA>> \o new_label ELSE new_label
    ELSE LET digit == label[i] + carry
         IN  IF digit > CharZ
             THEN NextLabelLoop(label, i - 1, 1, <<CharA>> \o new_label)
             ELSE NextLabelLoop(label, i - 1, 0, <<digit>> \o new_label)

NextLabel_NoGrow(label) ==
    LET new_label == NextLabelLoop(label, Len(label), 1, <<>>)
    IN  IF Len(new_label) > Len(label) THEN Tail(new_label) ELSE new_label

NextLabel(label) == NextLabelLoop(label, Len(label), 1, <<>>)

\* Labels is map[uint32]string; reading a missing key gives "".
NoLabels == [k \in {} |-> <<>>]
LabelOf(labels, k) == IF k \in DOMAIN labels THEN labels[k] ELSE <<>>

\* instructions[i] of the Go slice (0-based).
At(s, i) == s[i + 1]

RECURSIVE MakeLabelsLoop(_, _, _, _)
MakeLabelsLoop(instructions, i, label, labels) ==
    IF i >= Len(instructions) THEN labels
    ELSE IF At(instructions, i).Op = OP_JUMP_TGT
         THEN MakeLabelsLoop(instructions, i + 1, NextLabel(label),
                             [k \in DOMAIN labels \cup {i} |->
                                 IF k = i THEN label ELSE labels[k]])
         ELSE MakeLabelsLoop(instructions, i + 1, label, labels)

MakeLabels_FromSlotOne(instructions) ==
    MakeLabelsLoop(instructions, 1, <<CharA>>, NoLabels)

MakeLabels_StartAtB(instructions) ==
    MakeLabelsLoop(instructions, 0, <<CharA + 1>>, NoLabels)

MakeLabels(instructions) == MakeLabelsLoop(instructions, 0, <<CharA>>, NoLabels)

\* The five kinds of DisassembleInterface, and the nil interface value a
\* slot of make(Disassembled, n) holds until it is assigned.
Nil == [kind |-> "nil"]
DisassembleComment(index) == [kind |-> "Comment", Index |-> index]
DisassembleJumpTarget(label, jumpee) ==
    [kind |-> "JumpTarget", Label |-> label, Jumpee |-> jumpee]
DisassembleInstruction(line, op) ==
    [kind |-> "Instruction", Line |-> line, Op |-> op]
DisassembleJumpInstruction(line, op, targetLabel, target) ==
    [kind |-> "JumpInstruction", Line |-> line, Op |-> op,
     TargetLabel |-> targetLabel, Target |-> target]
DisassembleArgInstruction(line, op, arg, indirect) ==
    [kind |-> "ArgInstruction", Line |-> line, Op |-> op,
     Arg |-> arg, Indirect |-> indirect]

\* disassembled[i] = v on the Go slice (0-based).
Put(s, i, v) == [s EXCEPT ![i + 1] = v]

\* One iteration of the loop of Disassemble on slot i.  st holds the locals
\* instNum and disassembled; panic is set when an index expression is out of
\* range, which ends the call without a result.
EmitSlot(instructions, labels, i, st) ==
    LET inst == At(instructions, i)
        opCode == inst.Op
    IN  IF inst.Comment > 0
        THEN [st EXCEPT !.disassembled = Put(@, i, DisassembleComment(inst.Op))]
        ELSE IF opCode = OP_JUMP_TGT
        THEN st
        ELSE IF opCode \in InstructionsWithLabel
        THEN LET label == LabelOf(labels, inst.Arg)
                 jump == DisassembleJumpInstruction(st.instNum, opCode, label, inst.Arg)
             IN  IF inst.Arg >= Len(instructions)
                 THEN [st EXCEPT !.panic = TRUE]
                 ELSE [st EXCEPT
                         !.disassembled =
                             Put(Put(@, i, jump), inst.Arg, DisassembleJumpTarget(label, i)),
                         !.instNum = @ + 1]
        ELSE IF opCode \in InstructionsWithArg
        THEN [st EXCEPT
                !.disassembled =
                    Put(@, i, DisassembleArgInstruction(st.instNum, opCode, inst.Arg,
                                                        inst.Mode = MODE_INDIRECT)),
                !.instNum = @ + 1]
        ELSE IF opCode \in InstrunctionMnemonics
        THEN [st EXCEPT
                !.disassembled = Put(@, i, DisassembleInstruction(st.instNum, opCode)),
                !.instNum = @ + 1]
        ELSE [st EXCEPT !.instNum = @ + 1]

RECURSIVE DisassembleLoop(_, _, _, _)
DisassembleLoop(instructions, labels, i, st) ==
    IF st.panic \/ i >= Len(instructions) THEN st
    ELSE DisassembleLoop(instructions, labels, i + 1,
                         EmitSlot(instructions, labels, i, st))

\* What a call of Disassemble ends with: panicked, and when it is FALSE the
\* returned slice.  labels records the map the call built with MakeLabels.
DisassembleFrom(instructions, labels, firstLine) ==
    LET st == DisassembleLoop(instructions, labels, 0,
                  [panic |-> FALSE, instNum |-> firstLine,
                   disassembled |-> [k \in 1..Len(instructions) |-> Nil]])
    IN  [panicked |-> st.panic,
         disassembled |-> IF st.panic THEN <<>> ELSE st.disassembled,
         labels |-> labels]

Disassemble_LineFromZero(instructions) ==
    DisassembleFrom(instructions, MakeLabels(instructions), 0)

Disassemble(instructions) ==
    DisassembleFrom(instructions, MakeLabels(instructions), 1)

(***************************************************************************)
(* The raw instruction sequences handed to Disassemble: up to MaxInstr     *)
(* slots, each any of RawSlots.  Arguments run to MaxInstr, so a jump can  *)
(* point before, at, after or beyond the end of the sequence.              *)
(***************************************************************************)
Instruction(comment, op, mode, arg) ==
    [Comment |-> comment, Op |-> op, Mode |-> mode, Arg |-> arg]

UnknownOp == OP_JUMP_NEG + 1

RawSlots ==
    {Instruction(0, OP_OUTBOX, MODE_DIRECT, 0),
     Instruction(0, OP_COPY_FROM, MODE_INDIRECT, 1),
     Instruction(0, OP_ADD, MODE_DIRECT, 0),
     Instruction(0, OP_JUMP_NEG, MODE_DIRECT, 1),
     Instruction(0, OP_JUMP_TGT, MODE_DIRECT, 0),
     Instruction(0, UnknownOp, MODE_DIRECT, 0),
     Instruction(1, OP_JUMP_TGT, MODE_DIRECT, 0),
     Instruction(2, OP_INBOX, MODE_DIRECT, 0)}
    \cup {Instruction(0, OP_JUMP, MODE_DIRECT, a) : a \in 0..MaxInstr}

SeqsUpTo(S, n) == UNION {[1..k -> S] : k \in 0..n}

InitDisasm ==
    /\ pc = "call"
    /\ call \in {[fn |-> "Disassemble", instructions |-> s] : s \in SeqsUpTo(RawSlots, MaxInstr)}
    /\ ret = 0
    /\ reader = NoReader

CallDisassemble ==
    /\ pc = "call" /\ call.fn = "Disassemble"
    /\ ret' = Disassemble(call.instructions)
    /\ pc' = "done"
    /\ UNCHANGED <<call, reader>>

NextDisasm == CallDisassemble

SpecDisasm == InitDisasm /\ [][NextDisasm]_vars


(***************************************************************************)
(* Reading a result of Disassemble.                                        *)
(***************************************************************************)
DisassembleReturned == Returned("Disassemble") /\ ~ret.panicked

\* The 0-based slots of a raw sequence.
Slots(instructions) == 0..(Len(instructions) - 1)

IsJump(inst) == inst.Comment = 0 /\ inst.Op \in {OP_JUMP, OP_JUMP_ZERO, OP_JUMP_NEG}

\* The entries that carry a line number.
HasLine(e) == e.kind \in {"Instruction", "ArgInstruction", "JumpInstruction"}

\* The k-th label of the sequence "a", "b", ... (k <= 26).
NthLabel(k) == <<CharA + k - 1>>

\* A program as the game stores it: no comment, every opcode a mnemonic or
\* JUMP_TARGET, every jump aimed at a JUMP_TARGET slot and every JUMP_TARGET
\* slot aimed at by a jump.
GameProgram(instructions) ==
    /\ \A i \in Slots(instructions) :
        LET inst == At(instructions, i)
        IN  /\ inst.Comment = 0
            /\ inst.Op \in InstrunctionMnemonics \cup {OP_JUMP_TGT}
            /\ IsJump(inst) =>
                    /\ inst.Arg \in Slots(instructions)
                    /\ At(instructions, inst.Arg).Op = OP_JUMP_TGT
            /\ inst.Op = OP_JUMP_TGT =>
                    \E j \in Slots(instructions) :
                        IsJump(At(instructions, j)) /\ At(instructions, j).Arg = i

\* The labelling the label pre-pass is described to build: scanning left to
\* right, the argument of each jump gets the next unused label unless it
\* already has one.
RECURSIVE DiscoveryLabels(_, _, _, _)
DiscoveryLabels(instructions, i, n, labels) ==
    IF i >= Len(instructions) THEN labels
    ELSE LET inst == At(instructions, i)
         IN  IF IsJump(inst) /\ inst.Arg \notin DOMAIN labels
             THEN DiscoveryLabels(instructions, i + 1, n + 1,
                                  [k \in DOMAIN labels \cup {inst.Arg} |->
                                      IF k = inst.Arg THEN NthLabel(n) ELSE labels[k]])
             ELSE DiscoveryLabels(instructions, i + 1, n, labels)

(***************************************************************************)
(* C4: for every raw instruction sequence of length N, whatever its field  *)
(* values, Disassemble returns a sequence of length exactly N.             *)
(***************************************************************************)
C4_LengthPreserved ==
    Returned("Disassemble") =>
        /\ ~ret.panicked
        /\ Len(ret.disassembled) = Len(call.instructions)

(***************************************************************************)
(* C5 as stated: labels go to jump targets in order of first discovery:    *)
(* the argument of the first jump gets "a", the next argument not yet      *)
(* labelled gets "b", and so on, whatever the numeric order of the         *)
(* arguments.  Stated here for programs as the game stores them.           *)
(***************************************************************************)
C5_DiscoveryOrder ==
    (DisassembleReturned /\ GameProgram(call.instructions)) =>
        \A i \in Slots(call.instructions) :
            At(ret.disassembled, i).kind = "JumpInstruction" =>
                At(ret.disassembled, i).TargetLabel =
                    LabelOf(DiscoveryLabels(call.instructions, 0, 1, NoLabels),
                            At(ret.disassembled, i).Target)

(***************************************************************************)
(* C5 as amended: the labelled slots are exactly the slots whose opcode is *)
(* JUMP_TARGET, and they are labelled in increasing slot index: the k-th   *)
(* such slot has the k-th label "a", "b", ..., so distinct slots have      *)
(* distinct labels.  Every JumpInstruction carries the label of its        *)
(* argument slot and every JumpTarget the label of its own slot.           *)
(***************************************************************************)
C5_LabelsBySlotOrder ==
    Returned("Disassemble") =>
        LET instructions == call.instructions
            targets == {i \in Slots(instructions) : At(instructions, i).Op = OP_JUMP_TGT}
        IN  /\ DOMAIN ret.labels = targets
            /\ \A i \in targets :
                    ret.labels[i] = NthLabel(Cardinality({j \in targets : j <= i}))
            /\ \A i, j \in targets : i # j => ret.labels[i] # ret.labels[j]
            /\ ~ret.panicked =>
                \A i \in Slots(instructions) :
                    LET e == At(ret.disassembled, i)
                    IN  /\ e.kind = "JumpInstruction" =>
                                e.TargetLabel = LabelOf(ret.labels, e.Target)
                        /\ e.kind = "JumpTarget" => e.Label = LabelOf(ret.labels, i)

\* Two jumps that reach the later JUMP_TARGET slot first: the slots are
\* labelled by position all the same.
C5_Witness ==
    /\ DisassembleReturned
    /\ call.instructions = <<Instruction(0, OP_JUMP, MODE_DIRECT, 3),
                             Instruction(0, OP_JUMP, MODE_DIRECT, 2),
                             Instruction(0, OP_JUMP_TGT, MODE_DIRECT, 0),
                             Instruction(0, OP_JUMP_TGT, MODE_DIRECT, 0)>>
    /\ ret.labels[2] = <<97>> /\ ret.labels[3] = <<98>>
    /\ At(ret.disassembled, 0).TargetLabel = <<98>>

(***************************************************************************)
(* C6: in any output of Disassemble the line numbers of the Instruction,   *)
(* ArgInstruction and JumpInstruction entries, read in index order, are    *)
(* exactly 1, 2, ..., k.                                                   *)
(***************************************************************************)
C6_LineNumbers ==
    DisassembleReturned =>
        LET lines == SelectSeq(ret.disassembled, HasLine)
        IN  \A j \in 1..Len(lines) : lines[j].Line = j

(***************************************************************************)
(* C7: [JUMP 2, OUTBOX, JUMP_TARGET] disassembles to                       *)
(* [JumpInstruction{1, JUMP, "a", 2}, Instruction{2, OUTBOX},              *)
(*  JumpTarget{"a", 0}].                                                   *)
(***************************************************************************)
C7_Scenario ==
    <<Instruction(0, OP_JUMP, MODE_DIRECT, 2),
      Instruction(0, OP_OUTBOX, MODE_DIRECT, 0),
      Instruction(0, OP_JUMP_TGT, MODE_DIRECT, 0)>>

C7_RoundTripScenario ==
    (Returned("Disassemble") /\ call.instructions = C7_Scenario) =>
        /\ ~ret.panicked
        /\ ret.disassembled =
            <<[kind |-> "JumpInstruction", Line |-> 1, Op |-> 8,
               TargetLabel |-> <<97>>, Target |-> 2],
              [kind |-> "Instruction", Line |-> 2, Op |-> 1],
              [kind |-> "JumpTarget", Label |-> <<97>>, Jumpee |-> 0]>>

\* The scenario has been disassembled and its last slot filled by the jump.
C7_Witness ==
    /\ DisassembleReturned
    /\ call.instructions = C7_Scenario
    /\ At(ret.disassembled, 2).kind = "JumpTarget"


\* The jump instructions of a raw sequence: the slots without comment flag
\* whose opcode is JUMP, JUMPZ or JUMPN.
JumpSlots(instructions) ==
    {i \in Slots(instructions) : IsJump(At(instructions, i))}

(***************************************************************************)
(* C12: when two jump instructions have the same argument t, or a jump     *)
(* instruction's argument is its own index, every such jump is in the      *)
(* output as a JumpInstruction whose TargetLabel is the label of slot t,   *)
(* and the entry of slot t is a JumpTarget with that same label.           *)
(***************************************************************************)
C12_SharedLabel ==
    DisassembleReturned =>
        \A i \in JumpSlots(call.instructions) :
            LET t == At(call.instructions, i).Arg
                shared == t = i \/ \E j \in JumpSlots(call.instructions) \ {i} :
                                        At(call.instructions, j).Arg = t
            IN  shared =>
                    /\ At(ret.disassembled, i).kind = "JumpInstruction"
                    /\ At(ret.disassembled, i).TargetLabel = LabelOf(ret.labels, t)
                    /\ At(ret.disassembled, t).kind = "JumpTarget"
                    /\ At(ret.disassembled, t).Label = LabelOf(ret.labels, t)

(***************************************************************************)
(* C13: for every slot i whose comment flag is non-zero, the output at     *)
(* index i is Comment{Index = opcode field of slot i}, whatever the other  *)
(* fields of the slot and whatever the other slots hold.                   *)
(***************************************************************************)
C13_CommentSlots ==
    DisassembleReturned =>
        \A i \in Slots(call.instructions) :
            At(call.instructions, i).Comment # 0 =>
                At(ret.disassembled, i) =
                    [kind |-> "Comment", Index |-> At(call.instructions, i).Op]

(***************************************************************************)
(* C14: for every slot i with comment flag 0 and a jump opcode with        *)
(* argument t, the output has at index i a JumpInstruction with Target t   *)
(* and label L, and at index t a JumpTarget with label L whose Jumpee is   *)
(* the index of a jump instruction whose argument is t.                    *)
(***************************************************************************)
C14_JumpLinks ==
    DisassembleReturned =>
        \A i \in JumpSlots(call.instructions) :
            LET t == At(call.instructions, i).Arg
                jump == At(ret.disassembled, i)
                target == At(ret.disassembled, t)
            IN  /\ jump.kind = "JumpInstruction"
                /\ jump.Target = t
                /\ target.kind = "JumpTarget"
                /\ target.Label = jump.TargetLabel
                /\ target.Jumpee \in JumpSlots(call.instructions)
                /\ At(call.instructions, target.Jumpee).Arg = t

(***************************************************************************)
(* C15 as stated: the label map covers every slot that is jumped to: for   *)
(* every jump instruction with argument t, slot t has a label, so no       *)
(* JumpInstruction or JumpTarget of the output carries an empty label,     *)
(* whatever the opcode of slot t.                                          *)
(***************************************************************************)
C15_NoEmptyLabel ==
    DisassembleReturned =>
        /\ \A i \in JumpSlots(call.instructions) :
                At(call.instructions, i).Arg \in DOMAIN ret.labels
        /\ \A i \in Slots(call.instructions) :
            LET e == At(ret.disassembled, i)
            IN  /\ e.kind = "JumpInstruction" => e.TargetLabel # <<>>
                /\ e.kind = "JumpTarget" => e.Label # <<>>

(***************************************************************************)
(* C15 as amended: the label map covers the slots jumped to whose opcode   *)
(* is JUMP_TARGET, and only those: for a jump instruction with argument    *)
(* t < N, slot t has a label exactly when its opcode is JUMP_TARGET.  A    *)
(* JumpInstruction of the output carries a non-empty label exactly when    *)
(* the opcode of its target slot is JUMP_TARGET, and a JumpTarget exactly  *)
(* when the opcode of its own slot is.                                     *)
(***************************************************************************)
C15_LabelsCoverJumpTargets ==
    Returned("Disassemble") =>
        LET instructions == call.instructions
            IsTarget(t) == At(instructions, t).Op = OP_JUMP_TGT
        IN  /\ \A i \in JumpSlots(instructions) :
                LET t == At(instructions, i).Arg
                IN  t \in Slots(instructions) => (t \in DOMAIN ret.labels <=> IsTarget(t))
            /\ ~ret.panicked =>
                \A i \in Slots(instructions) :
                    LET e == At(ret.disassembled, i)
                    IN  /\ e.kind = "JumpInstruction" =>
                                (e.TargetLabel # <<>> <=> IsTarget(e.Target))
                        /\ e.kind = "JumpTarget" => (e.Label # <<>> <=> IsTarget(i))

\* One jump to a JUMP_TARGET slot and one to an OUTBOX slot: the first
\* carries "a", the second the empty label.
C15_Witness ==
    /\ DisassembleReturned
    /\ call.instructions = <<Instruction(0, OP_JUMP, MODE_DIRECT, 1),
                             Instruction(0, OP_JUMP_TGT, MODE_DIRECT, 0),
                             Instruction(0, OP_JUMP, MODE_DIRECT, 3),
                             Instruction(0, OP_OUTBOX, MODE_DIRECT, 0)>>
    /\ At(ret.disassembled, 0).TargetLabel = <<97>>
    /\ At(ret.disassembled, 1) = [kind |-> "JumpTarget", Label |-> <<97>>, Jumpee |-> 0]
    /\ At(ret.disassembled, 2).TargetLabel = <<>>

(***************************************************************************)
(* C18: every slot of the output of Disassemble holds one of the five      *)
(* entry kinds; no slot is left empty, a JUMP_TARGET slot that no jump     *)
(* refers to and a slot with an opcode outside the mnemonic set included.  *)
(***************************************************************************)
C18_EverySlotFilled ==
    DisassembleReturned =>
        \A i \in Slots(call.instructions) :
            At(ret.disassembled, i).kind \in
                {"Comment", "JumpTarget", "Instruction", "ArgInstruction", "JumpInstruction"}

(***************************************************************************)
(* C19: Disassemble never indexes the output outside 0..N-1: a jump whose  *)
(* argument is >= N is bounds-checked before the JumpTarget is written,    *)
(* so the call completes without an out-of-range fault for every input.    *)
(***************************************************************************)
C19_NoOutOfRangeFault ==
    Returned("Disassemble") => ~ret.panicked

(***************************************************************************)
(* package instructions: DecodeComments.                                   *)
(***************************************************************************)
\* A raw point is [4]byte; binary.Read decodes it little-endian into
\* CommentPoint{X, Y uint16}.
ZeroPoint == <<0, 0, 0, 0>>
CommentPoint(rawPoint) ==
    [X |-> rawPoint[1] + 256 * rawPoint[2], Y |-> rawPoint[3] + 256 * rawPoint[4]]

\* The loop over the raw points of one comment: comment and line are the
\* locals of the code, and what is stored in comments[i] is comment.
RECURSIVE DecodeCommentLoop(_, _, _, _)
DecodeCommentLoop(rawComment, k, comment, line) ==
    IF k > Len(rawComment) THEN comment
    ELSE IF rawComment[k] = ZeroPoint
         THEN DecodeCommentLoop(rawComment, k + 1, Append(comment, line), <<>>)
         ELSE DecodeCommentLoop(rawComment, k + 1, comment,
                                Append(line, CommentPoint(rawComment[k])))

DecodeComments(rawComments) ==
    [err |-> FALSE,
     comments |-> [i \in 1..Len(rawComments) |->
                      DecodeCommentLoop(rawComments[i], 1, <<>>, <<>>)]]

RawPoints == {ZeroPoint, <<1, 0, 1, 0>>, <<2, 0, 2, 0>>, <<5, 0, 5, 0>>, <<0, 1, 0, 0>>}

InitComments ==
    /\ pc = "call"
    /\ call \in {[fn |-> "DecodeComments", rawComments |-> s] :
                    s \in SeqsUpTo(SeqsUpTo(RawPoints, MaxEntries), MaxRawComments)}
    /\ ret = 0
    /\ reader = NoReader

CallDecodeComments ==
    /\ pc = "call" /\ call.fn = "DecodeComments"
    /\ ret' = DecodeComments(call.rawComments)
    /\ pc' = "done"
    /\ UNCHANGED <<call, reader>>

NextComments == CallDecodeComments

SpecComments == InitComments /\ [][NextComments]_vars

\* The lines of a raw comment as the geometry decoder is described: a zero
\* entry closes the current line, and the points left open at the end of the
\* input form the final line.
RECURSIVE LinesOf(_, _, _, _)
LinesOf(rawComment, k, comment, line) ==
    IF k > Len(rawComment)
    THEN IF line = <<>> THEN comment ELSE Append(comment, line)
    ELSE IF rawComment[k] = ZeroPoint
         THEN LinesOf(rawComment, k + 1, Append(comment, line), <<>>)
         ELSE LinesOf(rawComment, k + 1, comment,
                      Append(line, [X |-> rawComment[k][1] + 256 * rawComment[k][2],
                                    Y |-> rawComment[k][3] + 256 * rawComment[k][4]]))

(***************************************************************************)
(* C8: DecodeComments needs no trailing zero entry: the points after the   *)
(* last all-zero entry form the final line of the decoded comment, and in  *)
(* particular [(1,1),(2,2),(0,0,0,0),(5,5)] decodes to the two lines       *)
(* [[(1,1),(2,2)],[(5,5)]].                                                *)
(***************************************************************************)
C8_TrailingLine ==
    Returned("DecodeComments") =>
        /\ ~ret.err
        /\ \A i \in 1..Len(call.rawComments) :
            /\ ret.comments[i] = LinesOf(call.rawComments[i], 1, <<>>, <<>>)
            /\ call.rawComments[i] = <<<<1, 0, 1, 0>>, <<2, 0, 2, 0>>, ZeroPoint, <<5, 0, 5, 0>>>>
                => ret.comments[i] = <<<<[X |-> 1, Y |-> 1], [X |-> 2, Y |-> 2]>>,
                                       <<[X |-> 5, Y |-> 5]>>>>


(***************************************************************************)
(* The stream the decoders read.  A reader holds                           *)
(*   start, words, fill: the bytes of the stream: from offset start on,    *)
(*       the little-endian uint32 words of `words` followed by the word    *)
(*       `fill` repeated; zero bytes before start;                         *)
(*   size: the length of the stream in bytes;                              *)
(*   pos, far: the cursor, far * 2^32 + pos (a cursor with far > 0 is      *)
(*       beyond every stream of the model);                                *)
(*   cap: the most bytes one Read call returns (an io.Reader may return    *)
(*       fewer bytes than asked for).                                      *)
(***************************************************************************)
ByteOf(word, j) == (word \div (256 ^ j)) % 256

WordAt(rd, w) == IF w < Len(rd.words) THEN rd.words[w + 1] ELSE rd.fill

ByteAt(rd, k) ==
    IF k < rd.start THEN 0
    ELSE ByteOf(WordAt(rd, (k - rd.start) \div 4), (k - rd.start) % 4)

Remaining(rd) ==
    IF rd.far > 0 \/ rd.pos >= rd.size THEN 0 ELSE rd.size - rd.pos

Advance(rd, n) == [rd EXCEPT !.pos = @ + n]

\* binary.LittleEndian.Uint32
Uint32LE(bytes) ==
    bytes[1] + 256 * bytes[2] + 65536 * bytes[3] + 16777216 * bytes[4]

\* reader.Read(p) with len(p) = n: at end of stream 0 bytes and io.EOF,
\* otherwise up to n bytes and no error.
Read(rd, n) ==
    LET m == Min(Min(n, rd.cap), Remaining(rd))
    IN  IF m = 0
        THEN [err |-> TRUE, bytes |-> <<>>, rd |-> rd]
        ELSE [err |-> FALSE,
              bytes |-> [j \in 1..m |-> ByteAt(rd, rd.pos + j - 1)],
              rd |-> Advance(rd, m)]

\* io.ReadFull(reader, p) with len(p) = n, as binary.Read calls it: Read is
\* repeated until n bytes are read; io.EOF or io.ErrUnexpectedEOF when the
\* stream ends first, with the bytes that were there consumed.
ReadFull(rd, n) ==
    IF Remaining(rd) >= n
    THEN [err |-> FALSE,
          bytes |-> [j \in 1..n |-> ByteAt(rd, rd.pos + j - 1)],
          rd |-> Advance(rd, n)]
    ELSE [err |-> TRUE, bytes |-> <<>>, rd |-> Advance(rd, Remaining(rd))]

\* binary.Read(reader, binary.LittleEndian, &x) for a uint32 x
ReadUint32(rd) ==
    LET r == ReadFull(rd, 4)
    IN  [err |-> r.err, val |-> IF r.err THEN 0 ELSE Uint32LE(r.bytes), rd |-> r.rd]

\* reader.Seek(skip, io.SeekCurrent) for a skip of far * 2^32 + off bytes
SeekCurrent(rd, far, off) == [rd EXCEPT !.pos = @ + off, !.far = @ + far]

(***************************************************************************)
(* package instructions: DecodeInstructions.                               *)
(***************************************************************************)
RecordSize == 16

\* binary.Read(b, binary.LittleEndian, &instructions[i]) on the 16 bytes of
\* buffer
DecodeRecord(buffer) ==
    Instruction(Uint32LE(SubSeq(buffer, 1, 4)), Uint32LE(SubSeq(buffer, 5, 8)),
                Uint32LE(SubSeq(buffer, 9, 12)), Uint32LE(SubSeq(buffer, 13, 16)))

\* The loop over the records.  buffer is the 16-byte slice the code reuses:
\* a Read of n bytes overwrites its first n bytes and leaves the rest.
RECURSIVE DecodeInstructionsLoop(_, _, _, _, _)
DecodeInstructionsLoop(rd, length, i, buffer, instructions) ==
    IF i >= length
    THEN [err |-> FALSE, instructions |-> instructions, rd |-> rd]
    ELSE LET r == Read(rd, RecordSize)
         IN  IF r.err
             THEN [err |-> TRUE, instructions |-> <<>>, rd |-> r.rd]
             ELSE LET filled == r.bytes \o SubSeq(buffer, Len(r.bytes) + 1, RecordSize)
                  IN  DecodeInstructionsLoop(r.rd, length, i + 1, filled,
                                             Append(instructions, DecodeRecord(filled)))

DecodeInstructions(rd) ==
    LET length == ReadUint32(rd)
    IN  IF length.err
        THEN [err |-> TRUE, instructions |-> <<>>, rd |-> length.rd]
        ELSE DecodeInstructionsLoop(length.rd, length.val, 0,
                                    [j \in 1..RecordSize |-> 0], <<>>)

\* The streams handed to DecodeInstructions: a length word N in 0..MaxRecords
\* followed by record words 257, 514, 771, ..., cut off after 0..all of its
\* bytes, or running on after the last record.
RecordWords(n) == [j \in 1..(4 * n) |-> 257 * j]

InstructionStreams ==
    {[start |-> s, words |-> <<n>> \o RecordWords(MaxRecords), fill |-> 0,
      size |-> s + len, pos |-> s, far |-> 0, cap |-> c] :
        s \in 0..MaxStart, n \in 0..MaxRecords,
        len \in 0..(4 + RecordSize * MaxRecords + 4), c \in {RecordSize - MaxShort, RecordSize}}

InitInstr ==
    /\ pc = "call"
    /\ call = [fn |-> "DecodeInstructions"]
    /\ ret = 0
    /\ reader \in InstructionStreams

CallDecodeInstructions ==
    /\ pc = "call" /\ call.fn = "DecodeInstructions"
    /\ LET r == DecodeInstructions(reader)
       IN  /\ ret' = [err |-> r.err, instructions |-> r.instructions, from |-> reader.pos]
           /\ reader' = r.rd
    /\ pc' = "done"
    /\ UNCHANGED call

NextInstr == CallDecodeInstructions

SpecInstr == InitInstr /\ [][NextInstr]_vars

(***************************************************************************)
(* C10: DecodeInstructions returns an error, and no instructions, whenever *)
(* the stream holds fewer than 4 + 16*N bytes from its position, N being   *)
(* the declared length word.                                               *)
(***************************************************************************)
C10_TruncatedIsError ==
    Returned("DecodeInstructions") =>
        LET available == reader.size - ret.from
            declared == WordAt(reader, 0)
        IN  (available < 4 \/ available < 4 + 16 * declared) =>
                ret.err /\ ret.instructions = <<>>


(***************************************************************************)
(* C11: after a successful DecodeInstructions call on a stream positioned  *)
(* at offset s with declared length N, the cursor is at s + 4 + 16*N and   *)
(* record i of the result is the 16 bytes at s + 4 + 16*i decoded as four  *)
(* little-endian uint32 fields.                                            *)
(***************************************************************************)
C11_PositionedAfterRecords ==
    (Returned("DecodeInstructions") /\ ~ret.err) =>
        LET declared == WordAt(reader, 0)
        IN  /\ reader.pos = ret.from + 4 + 16 * declared
            /\ Len(ret.instructions) = declared
            /\ \A i \in 0..(declared - 1) :
                    At(ret.instructions, i) =
                        [Comment |-> WordAt(reader, 4 * i + 1), Op |-> WordAt(reader, 4 * i + 2),
                         Mode |-> WordAt(reader, 4 * i + 3), Arg |-> WordAt(reader, 4 * i + 4)]

(***************************************************************************)
(* package instructions: DecodeRawComments.                                *)
(***************************************************************************)
CommentSlotSize == 1024

\* skip := int64(1024 - commentLength*4), computed in uint32: the skip is
\* SkipFar * 2^32 + SkipOff bytes (for commentLength < 2^30).
SkipFar(commentLength) == IF commentLength * 4 > CommentSlotSize THEN 1 ELSE 0

SkipOff_WholeSlot(commentLength) == CommentSlotSize

SkipOff(commentLength) == CommentSlotSize - commentLength * 4

\* The loop over the entries of one comment: entry i (0-based) is read by
\* binary.Read, 4 bytes, after the i entries before it; the first read that
\* fails ends the call.
EntryRead(rd, i) == ReadFull(Advance(rd, 4 * i), 4)

ReadEntries(rd, commentLength) ==
    LET failing == {i \in 0..(commentLength - 1) : EntryRead(rd, i).err}
    IN  IF failing = {}
        THEN [err |-> FALSE,
              entries |-> [i \in 1..commentLength |-> EntryRead(rd, i - 1).bytes],
              rd |-> Advance(rd, 4 * commentLength)]
        ELSE [err |-> TRUE, entries |-> <<>>,
              rd |-> EntryRead(rd, CHOOSE i \in failing : \A j \in failing : i <= j).rd]

\* The loop over the comments.  slots records, for every comment the loop
\* finished, its entry count and the cursor before its count word and after
\* its Seek.
RECURSIVE DecodeRawCommentsLoop(_, _, _, _, _)
DecodeRawCommentsLoop(rd, commentsLength, commentIdx, comments, slots) ==
    IF commentIdx >= commentsLength
    THEN [err |-> FALSE, comments |-> comments, rd |-> rd, slots |-> slots]
    ELSE LET commentLength == ReadUint32(rd)
         IN  IF commentLength.err
             THEN [err |-> TRUE, comments |-> <<>>, rd |-> commentLength.rd, slots |-> slots]
             ELSE LET e == ReadEntries(commentLength.rd, commentLength.val)
                      after == SeekCurrent(e.rd, SkipFar(commentLength.val),
                                           SkipOff(commentLength.val))
                  IN  IF e.err
                      THEN [err |-> TRUE, comments |-> <<>>, rd |-> e.rd, slots |-> slots]
                      ELSE DecodeRawCommentsLoop(after, commentsLength, commentIdx + 1,
                               Append(comments, e.entries),
                               Append(slots, [count |-> commentLength.val,
                                              from |-> rd.pos, fromFar |-> rd.far,
                                              to |-> after.pos, toFar |-> after.far]))

DecodeRawComments(rd) ==
    LET commentsLength == ReadUint32(rd)
    IN  IF commentsLength.err
        THEN [err |-> TRUE, comments |-> <<>>, rd |-> commentsLength.rd, slots |-> <<>>]
        ELSE DecodeRawCommentsLoop(commentsLength.rd, commentsLength.val, 0, <<>>, <<>>)

\* The comment blocks handed to DecodeRawComments: the count word M, the
\* entry count of the first comment, and then one word repeated (it is the
\* entries and padding of every comment and the entry count of the later
\* ones), cut off at a length around a multiple of the slot stride.
SlotEntries == CommentSlotSize \div 4

CommentStreams ==
    {[start |-> s, words |-> <<m, k>>, fill |-> f,
      size |-> s + c * (4 + CommentSlotSize) + d, pos |-> s, far |-> 0, cap |-> RecordSize] :
        s \in 0..MaxStart, m \in 0..MaxComments,
        k \in (0..MaxCount) \cup {SlotEntries, SlotEntries + 1},
        f \in 0..MaxCount, c \in 0..MaxComments, d \in 0..MaxTail}

InitRawComments ==
    /\ pc = "call"
    /\ call = [fn |-> "DecodeRawComments"]
    /\ ret = 0
    /\ reader \in CommentStreams

CallDecodeRawComments ==
    /\ pc = "call" /\ call.fn = "DecodeRawComments"
    /\ LET r == DecodeRawComments(reader)
       IN  /\ ret' = [err |-> r.err, comments |-> r.comments, slots |-> r.slots,
                      from |-> reader.pos]
           /\ reader' = r.rd
    /\ pc' = "done"
    /\ UNCHANGED call

NextRawComments == CallDecodeRawComments

SpecRawComments == InitRawComments /\ [][NextRawComments]_vars

(***************************************************************************)
(* C9 as stated: for every comment of a block, whatever entry count K it   *)
(* declares, the cursor advances by exactly 1024 bytes in total (count     *)
(* word, K entries and skipped padding together).                          *)
(***************************************************************************)
C9_Advance1024 ==
    Returned("DecodeRawComments") =>
        \A j \in 1..Len(ret.slots) :
            /\ ret.slots[j].toFar = ret.slots[j].fromFar
            /\ ret.slots[j].to - ret.slots[j].from = 1024

(***************************************************************************)
(* C9 as amended: for every comment whose count word and K entries were    *)
(* read, the cursor advances by exactly 1028 bytes in total when K <= 256: *)
(* the 4 bytes of the count word and a 1024-byte slot of entries and       *)
(* padding.  For K > 256 the uint32 skip wraps and the cursor advances by  *)
(* 2^32 + 1028 bytes.                                                      *)
(***************************************************************************)
C9_Advance1028 ==
    Returned("DecodeRawComments") =>
        \A j \in 1..Len(ret.slots) :
            LET slot == ret.slots[j]
            IN  /\ slot.to - slot.from = 4 + 1024
                /\ slot.count <= 256 => slot.toFar = slot.fromFar
                /\ slot.count > 256 => slot.toFar = slot.fromFar + 1

\* Two comments were decoded, the first with K = 2 and the second with
\* K = 1, each leaving the cursor 1028 bytes further.
C9_Witness ==
    /\ Returned("DecodeRawComments") /\ ~ret.err
    /\ Len(ret.slots) = 2
    /\ ret.slots[1].count = 2 /\ ret.slots[2].count = 1
    /\ ret.slots[1].from = ret.from + 4
    /\ ret.slots[2].from = ret.from + 1032
    /\ reader.pos = ret.from + 2060 /\ reader.far = 0

(***************************************************************************)
(* C17: DecodeRawComments returns an error and no comments whenever the    *)
(* stream is truncated relative to what the block declares: fewer than M   *)
(* comment slots present, fewer than K entries present for a comment, or   *)
(* the padding of a slot cut short.  With every K <= 256 the block of M    *)
(* comments takes 4 + M * (4 + 1024) bytes.                                *)
(***************************************************************************)
C17_TruncatedIsError ==
    Returned("DecodeRawComments") =>
        LET commentsLength == WordAt(reader, 0)
            commentLength == WordAt(reader, 1)
            available == reader.size - ret.from
        IN  (/\ commentLength <= SlotEntries
             /\ available < 4 + commentsLength * (4 + CommentSlotSize)) =>
                 ret.err /\ ret.comments = <<>>

(***************************************************************************)
(* package instructions: NextLabel applied repeatedly from "a", as the     *)
(* loop of MakeLabels does with label = NextLabel(label).  call.n counts   *)
(* the labels so far: call.label is the n-th label of the chain.           *)
(***************************************************************************)
InitLabels ==
    /\ pc = "call"
    /\ call = [fn |-> "NextLabel", label |-> <<CharA>>, n |-> 1]
    /\ ret = 0
    /\ reader = NoReader

CallNextLabel ==
    /\ pc = "call" /\ call.fn = "NextLabel"
    /\ ret' = NextLabel(call.label)
    /\ pc' = "done"
    /\ UNCHANGED <<call, reader>>

\* label = NextLabel(label): the result is the argument of the next call.
NextLabelAgain ==
    /\ pc = "done" /\ call.fn = "NextLabel"
    /\ call.n < MaxLabels
    /\ call' = [fn |-> "NextLabel", label |-> ret, n |-> call.n + 1]
    /\ pc' = "call"
    /\ UNCHANGED <<ret, reader>>

NextLabels == CallNextLabel \/ NextLabelAgain

SpecLabels == InitLabels /\ [][NextLabels]_vars

\* The n-th numeral of the bijective base-26 system over "a".."z", n >= 1:
\* its last letter is digit 1 + (n - 1) mod 26 and the letters before it
\* are the numeral of (n - 1) div 26.  Numerals of different n differ.
RECURSIVE Bijective26(_)
Bijective26(n) ==
    IF n = 0 THEN <<>>
    ELSE Bijective26((n - 1) \div 26) \o <<CharA + ((n - 1) % 26)>>

(***************************************************************************)
(* C20: NextLabel is the successor function of the bijective base-26       *)
(* sequence over lowercase letters: starting from "a", the n-th label of   *)
(* the chain is the n-th numeral ("a".."z", "aa".."az", ..., "zz", "aaa"), *)
(* and NextLabel of it is the (n+1)-th, so no label is repeated or         *)
(* skipped.                                                                *)
(***************************************************************************)
C20_BijectiveSuccessor ==
    call.fn = "NextLabel" =>
        /\ call.label = Bijective26(call.n)
        /\ pc = "done" => ret = Bijective26(call.n + 1)

\* The all-'z' label "zz" has grown by one letter to "aaa".
C20_Witness ==
    /\ Returned("NextLabel")
    /\ call.label = <<CharZ, CharZ>>
    /\ ret = <<CharA, CharA, CharA>>

(***************************************************************************)
(* package profile: Decode.                                                *)
(***************************************************************************)
\* The zero values of Tab, Floor and Profile; Profile{} is ZeroProfile.
ZeroTab == [Offset |-> 0, Code |-> <<>>, RawComments |-> <<>>, Comments |-> <<>>]

ZeroFloor ==
    [Offset |-> 0, Completed |-> FALSE, SizeChallenge |-> 0, SpeedChallenge |-> 0,
     Tabs |-> [tab \in Tabs |-> ZeroTab]]

ZeroProfile == [Floors |-> [floorNumber \in FloorIndexes |-> ZeroFloor]]

\* reader.Seek(off, io.SeekStart); Decode ignores its result.
SeekStart(rd, off) == [rd EXCEPT !.pos = off, !.far = 0]

floor_start(floorNumber) ==
    FILE_HEADER_OFFSET + FILE_HEADER_SIZE
        + floorNumber * (FLOOR_HEADER_SIZE + FLOOR_TAB_SIZE * 3)

tab_start(floorNumber, tab) ==
    floor_start(floorNumber) + FLOOR_HEADER_SIZE + FLOOR_TAB_SIZE * tab

\* binary.Read(reader, binary.LittleEndian, &floorHeader): ten 32-bit
\* fields, of which Decode uses the fifth to the eighth.  The two int32
\* fields are below 2^31 in every stream of the model.
ReadFloorHeader(rd) ==
    LET r == ReadFull(rd, FLOOR_HEADER_SIZE)
        Field(j) == IF r.err THEN 0 ELSE Uint32LE(SubSeq(r.bytes, 4 * j + 1, 4 * j + 4))
    IN  [err |-> r.err, rd |-> r.rd,
         floorHeader |-> [SizeChallengeCompleted |-> Field(4),
                          SpeedChallengeCompleted |-> Field(5),
                          SizeChallengeCommands |-> Field(6),
                          SpeedChallengeSteps |-> Field(7)]]

\* The body of the loop over the tabs, for one tab, in the order of its
\* calls: DecodeInstructions, Disassemble, DecodeRawComments, DecodeComments.
DecodeTabComments(code, raw, decoded) ==
    IF decoded.err
    THEN [err |-> TRUE, panicked |-> FALSE, tab |-> ZeroTab, rd |-> raw.rd]
    ELSE [err |-> FALSE, panicked |-> FALSE, rd |-> raw.rd,
          tab |-> [Offset |-> 0, Code |-> code.disassembled,
                   RawComments |-> raw.comments, Comments |-> decoded.comments]]

DecodeTabRawComments(code, raw) ==
    IF raw.err
    THEN [err |-> TRUE, panicked |-> FALSE, tab |-> ZeroTab, rd |-> raw.rd]
    ELSE DecodeTabComments(code, raw, DecodeComments(raw.comments))

DecodeTabCode(instructionList, code, floorNumber, tab) ==
    IF code.panicked
    THEN [err |-> FALSE, panicked |-> TRUE, tab |-> ZeroTab, rd |-> instructionList.rd]
    ELSE DecodeTabRawComments(code,
             DecodeRawComments(SeekStart(instructionList.rd,
                 tab_start(floorNumber, tab) + INSTRUCTIONS_SIZE)))

DecodeTabInstructions(instructionList, floorNumber, tab) ==
    IF instructionList.err
    THEN [err |-> TRUE, panicked |-> FALSE, tab |-> ZeroTab, rd |-> instructionList.rd]
    ELSE DecodeTabCode(instructionList, Disassemble(instructionList.instructions),
                       floorNumber, tab)

DecodeTab(rd, floorNumber, tab) ==
    DecodeTabInstructions(DecodeInstructions(SeekStart(rd, tab_start(floorNumber, tab))),
                          floorNumber, tab)

\* for tab := 0; tab < 3; tab++: t is the outcome of the body for this tab.
RECURSIVE DecodeTabLoop(_, _, _, _)
RECURSIVE DecodeTabNext(_, _, _, _)
DecodeTabLoop(rd, floorNumber, tab, floor) ==
    IF tab >= 3
    THEN [err |-> FALSE, panicked |-> FALSE, floor |-> floor, rd |-> rd]
    ELSE DecodeTabNext(DecodeTab(rd, floorNumber, tab), floorNumber, tab, floor)

DecodeTabNext(t, floorNumber, tab, floor) ==
    IF t.err \/ t.panicked
    THEN [err |-> t.err, panicked |-> t.panicked, floor |-> floor, rd |-> t.rd]
    ELSE DecodeTabLoop(t.rd, floorNumber, tab + 1, [floor EXCEPT !.Tabs[tab] = t.tab])

\* floor.SizeChallenge, floor.SpeedChallenge = -1, -1 and the two ifs.
FloorOf(floorHeader) ==
    [ZeroFloor EXCEPT
        !.SpeedChallenge = IF floorHeader.SpeedChallengeCompleted > 0
                           THEN floorHeader.SpeedChallengeSteps ELSE -1,
        !.SizeChallenge = IF floorHeader.SizeChallengeCompleted > 0
                          THEN floorHeader.SizeChallengeCommands ELSE -1]

\* The body of the loop over the floors, for one floor.  The local
\* missingIdx is written and never read, and is left out.
DecodeFloorTabs(h, floorNumber) ==
    IF h.err
    THEN [err |-> TRUE, panicked |-> FALSE, floor |-> ZeroFloor, rd |-> h.rd]
    ELSE DecodeTabLoop(h.rd, floorNumber, 0, FloorOf(h.floorHeader))

DecodeFloor(rd, floorNumber) ==
    DecodeFloorTabs(ReadFloorHeader(SeekStart(rd, floor_start(floorNumber))), floorNumber)

\* for floorNumber := 0; floorNumber < numFloors; floorNumber++: profile is
\* the local variable of Decode, fl the outcome of the body for this floor.
RECURSIVE DecodeFloorLoop(_, _, _)
RECURSIVE DecodeFloorNext(_, _, _)
DecodeFloorLoop(rd, floorNumber, profile) ==
    IF floorNumber >= numFloors
    THEN [err |-> FALSE, panicked |-> FALSE, profile |-> profile, rd |-> rd]
    ELSE DecodeFloorNext(DecodeFloor(rd, floorNumber), floorNumber, profile)

DecodeFloorNext(fl, floorNumber, profile) ==
    IF fl.err \/ fl.panicked
    THEN [err |-> fl.err, panicked |-> fl.panicked, profile |-> profile, rd |-> fl.rd]
    ELSE DecodeFloorLoop(fl.rd, floorNumber + 1,
                         [profile EXCEPT !.Floors[floorNumber] = fl.floor])

\* Every return of Decode on an error is "return Profile{}, err".
DecodeReturn(r) == IF r.err THEN [r EXCEPT !.profile = ZeroProfile] ELSE r

Decode_PartialProfile(rd) == DecodeFloorLoop(rd, 0, ZeroProfile)

Decode(rd) == DecodeReturn(DecodeFloorLoop(rd, 0, ZeroProfile))

(***************************************************************************)
(* The profile files handed to Decode: the words of the file header, of    *)
(* the header of floor 0 and of the start of its first tab, then one word  *)
(* repeated to the end (0: empty tabs; 1: every challenge completed, one   *)
(* comment placeholder and one one-entry comment per tab).  The file ends  *)
(* 0..MaxCut bytes after the start of a floor header, an instruction block *)
(* or a comment block of floor 0..MaxCutFloor or of the last floor.        *)
(***************************************************************************)
HeadWords(completed, commands, count, op, arg) ==
    [j \in 1..24 |->
        CASE j = 14 -> completed
          [] j = 16 -> commands
          [] j = 20 -> count
          [] j = 22 -> op
          [] j = 23 -> MODE_DIRECT
          [] j = 24 -> arg
          [] OTHER -> 0]

ProfileHeads ==
    {<<>>,
     HeadWords(1, 7, 1, OP_OUTBOX, 0),
     HeadWords(0, 7, 1, OP_JUMP, 0),
     HeadWords(0, 0, 1, OP_JUMP, 5)}

ProfileFills == {0, 1}

CutFloors == (0..MaxCutFloor) \cup {numFloors - 1}

BlockStarts ==
    {floor_start(f) : f \in CutFloors}
        \cup {tab_start(f, t) : f \in CutFloors, t \in Tabs}
        \cup {tab_start(f, t) + INSTRUCTIONS_SIZE : f \in CutFloors, t \in Tabs}

ProfileStreams ==
    {[start |-> 0, words |-> w, fill |-> f, size |-> b + d, pos |-> 0, far |-> 0,
      cap |-> RecordSize] :
        w \in ProfileHeads, f \in ProfileFills, b \in BlockStarts, d \in 0..MaxCut}

InitDecode ==
    /\ pc = "call"
    /\ call = [fn |-> "Decode"]
    /\ ret = 0
    /\ reader \in ProfileStreams

\* ret holds the results of Decode and, in rd, the reader as it leaves it.
CallDecode ==
    /\ pc = "call" /\ call.fn = "Decode"
    /\ ret' = Decode(reader)
    /\ reader' = ret'.rd
    /\ pc' = "done"
    /\ UNCHANGED call

NextDecode == CallDecode

SpecDecode == InitDecode /\ [][NextDecode]_vars

\* The reads Decode makes from the file, each taken alone.
HeaderFails(f) == ReadFloorHeader(SeekStart(reader, floor_start(f))).err
InstructionsFail(f, t) == DecodeInstructions(SeekStart(reader, tab_start(f, t))).err
CommentsFail(f, t) ==
    DecodeRawComments(SeekStart(reader, tab_start(f, t) + INSTRUCTIONS_SIZE)).err
FloorFails(f) ==
    HeaderFails(f) \/ \E t \in Tabs : InstructionsFail(f, t) \/ CommentsFail(f, t)

(***************************************************************************)
(* C16: Decode has no partial success: when the read of a floor header,    *)
(* an instruction block or a comment block of any of the 36 floors x 3     *)
(* tabs returns an error, Decode returns an error together with the empty  *)
(* Profile; a populated Profile is returned only without error, when every *)
(* floor and tab was decoded, and then every floor of it is populated.     *)
(***************************************************************************)
C16_NoPartialSuccess ==
    (Returned("Decode") /\ ~ret.panicked) =>
        /\ (\E f \in FloorIndexes : FloorFails(f)) => ret.err
        /\ ret.err => ret.profile = ZeroProfile
        /\ ret.profile # ZeroProfile =>
                /\ ~ret.err
                /\ \A f \in FloorIndexes : ~FloorFails(f) /\ ret.profile.Floors[f] # ZeroFloor

\* Floor 0 and its three tabs decode, a later read fails, and the floors
\* decoded so far are not returned.
C16_Witness ==
    /\ Returned("Decode") /\ ~ret.panicked
    /\ ~FloorFails(0)
    /\ \E f \in FloorIndexes : FloorFails(f)
    /\ ret.err /\ ret.profile = ZeroProfile

(***************************************************************************)
(* package seekbufio: SeekableBufferedReader over a file.  reader holds    *)
(* the size of the file, pos the position of the underlying file, buffered *)
(* the count of bytes bufferedReader holds (the bytes before pos), and ref *)
(* the position of the same file when the same calls are made on it        *)
(* without the buffer.                                                     *)
(***************************************************************************)
Max(a, b) == IF a > b THEN a ELSE b

\* The byte of the file at offset k.
FileByte(k) == (k + 1) % 256

FileBytes(at, n) == [j \in 1..n |-> FileByte(at + j - 1)]

\* The file's Read(p) with len(p) = n at position pos: the bytes left, up
\* to n; io.EOF when n > 0 and none is left.
FileRead(size, pos, n) ==
    LET m == Min(n, Max(0, size - pos))
    IN  [n |-> m, err |-> n > 0 /\ m = 0, pos |-> pos + m]

\* The file's Seek(offset, whence): an error and no move when the target is
\* negative; a target beyond the end is accepted.
SeekTarget(size, pos, offset, whence) ==
    CASE whence = "SeekStart" -> offset
      [] whence = "SeekCurrent" -> pos + offset
      [] whence = "SeekEnd" -> size + offset

FileSeek(size, pos, offset, whence) ==
    LET t == SeekTarget(size, pos, offset, whence)
    IN  IF t < 0 THEN [err |-> TRUE, ret |-> 0, pos |-> pos]
        ELSE [err |-> FALSE, ret |-> t, pos |-> t]

\* r.bufferedReader.Read(p) with len(p) = n: with an empty buffer a slice of
\* BufSize bytes or more is read into directly, and a shorter one after one
\* Read of the file into the buffer; then whatever the buffer holds, up to
\* n, is copied.  at is the offset of the first byte returned.
BufferedFill(rd) ==
    LET u == FileRead(rd.size, rd.pos, BufSize)
    IN  [rd EXCEPT !.pos = u.pos, !.buffered = u.n]

BufferedCopy(rd, n) ==
    LET m == Min(n, rd.buffered)
    IN  [n |-> m, err |-> n > 0 /\ m = 0, at |-> rd.pos - rd.buffered,
         rd |-> [rd EXCEPT !.buffered = @ - m]]

BufferedDirect(rd, u) ==
    [n |-> u.n, err |-> u.err, at |-> rd.pos, rd |-> [rd EXCEPT !.pos = u.pos]]

BufferedRead(rd, n) ==
    IF n = 0 THEN [n |-> 0, err |-> FALSE, at |-> rd.pos - rd.buffered, rd |-> rd]
    ELSE IF rd.buffered > 0 THEN BufferedCopy(rd, n)
    ELSE IF n >= BufSize THEN BufferedDirect(rd, FileRead(rd.size, rd.pos, n))
    ELSE BufferedCopy(BufferedFill(rd), n)

\* func (r SeekableBufferedReader) Seek(offset, whence)
SeekableSeekTo(rd, u) ==
    IF u.err THEN [err |-> TRUE, ret |-> u.ret, rd |-> rd]
    ELSE [err |-> FALSE, ret |-> u.ret, rd |-> [rd EXCEPT !.pos = u.pos, !.buffered = 0]]

SeekableSeek_NoBuffered(rd, offset, whence) ==
    SeekableSeekTo(rd, FileSeek(rd.size, rd.pos, offset, whence))

SeekableSeek(rd, offset, whence) ==
    SeekableSeekTo(rd, FileSeek(rd.size, rd.pos,
                       IF whence = "SeekCurrent" THEN offset - rd.buffered ELSE offset,
                       whence))

\* func (r SeekableBufferedReader) Read(p)
SeekableRead(rd, n) == BufferedRead(rd, n)

\* Positions are kept within MaxPos so that the state space is finite.
MaxPos == MaxFile + MaxOff

Whences == {"SeekStart", "SeekCurrent", "SeekEnd"}

\* OpenSeekableBufferedReaderAt(filename, at): New(file) on a file at `at`.
InitSeekable ==
    /\ pc = "done"
    /\ call = [fn |-> "New"]
    /\ ret = 0
    /\ reader \in {[size |-> n, pos |-> at, buffered |-> 0, ref |-> at] :
                      n \in 0..MaxFile, at \in 0..MaxOff}

SeekableCalls == {"New", "Read", "Seek"}

\* ret keeps, beside the results, the logical cursor (at) and the buffered
\* count the call started from.
ReadDone(r, u) ==
    /\ ret' = [n |-> r.n, err |-> r.err, bytes |-> FileBytes(r.at, r.n),
               at |-> reader.pos - reader.buffered, buffered |-> reader.buffered]
    /\ reader' = [r.rd EXCEPT !.ref = u.pos]

CallSeekableRead ==
    /\ pc = "done" /\ call.fn \in SeekableCalls
    /\ \E n \in 0..MaxLen :
        /\ call' = [fn |-> "Read", len |-> n]
        /\ ReadDone(SeekableRead(reader, n), FileRead(reader.size, reader.ref, n))
    /\ UNCHANGED pc

SeekDone(r, u) ==
    /\ r.rd.pos <= MaxPos /\ u.pos <= MaxPos
    /\ ret' = [err |-> r.err, pos |-> r.ret,
               at |-> reader.pos - reader.buffered, buffered |-> reader.buffered]
    /\ reader' = [r.rd EXCEPT !.ref = u.pos]

CallSeekableSeek ==
    /\ pc = "done" /\ call.fn \in SeekableCalls
    /\ \E offset \in (0 - MaxOff)..MaxOff, whence \in Whences :
        /\ call' = [fn |-> "Seek", offset |-> offset, whence |-> whence]
        /\ SeekDone(SeekableSeek(reader, offset, whence),
                    FileSeek(reader.size, reader.ref, offset, whence))
    /\ UNCHANGED pc

NextSeekable == CallSeekableRead \/ CallSeekableSeek

SpecSeekable == InitSeekable /\ [][NextSeekable]_vars

\* The logical cursor: the position of the file less the bytes still buffered.
Logical == reader.pos - reader.buffered

(***************************************************************************)
(* C21 as stated: for any sequence of Read and Seek calls the logical      *)
(* cursor of the SeekableBufferedReader is the position the same calls     *)
(* produce on the underlying stream without the buffer.                    *)
(***************************************************************************)
C21_SameAsUnbuffered ==
    (pc = "done" /\ call.fn \in SeekableCalls) => Logical = reader.ref

(***************************************************************************)
(* C21 as amended: every Read returns the bytes at the logical cursor and  *)
(* advances it by their count; the count is the one the unbuffered stream  *)
(* gives (the bytes left, up to the length asked for, io.EOF when none),   *)
(* except that a Read finding the buffer holding some but fewer bytes than *)
(* that returns only the buffered bytes.  A successful Seek discards the   *)
(* buffered bytes, leaves the logical cursor at the target (SeekCurrent:   *)
(* relative to the logical cursor) and returns it; a Seek to a negative    *)
(* target fails and moves nothing.                                         *)
(***************************************************************************)
C21_ReadsAtLogicalCursor ==
    /\ Returned("Read") =>
        LET want == Min(call.len, Max(0, reader.size - ret.at))
            got == IF 0 < ret.buffered /\ ret.buffered < want THEN ret.buffered ELSE want
        IN  /\ ret.n = got
            /\ ret.bytes = FileBytes(ret.at, got)
            /\ ret.err = (call.len > 0 /\ want = 0)
            /\ Logical = ret.at + got
    /\ Returned("Seek") =>
        LET target == SeekTarget(reader.size, ret.at, call.offset, call.whence)
        IN  /\ ret.err = (target < 0)
            /\ ret.err => Logical = ret.at /\ reader.buffered = ret.buffered
            /\ ~ret.err => Logical = target /\ ret.pos = target /\ reader.buffered = 0

\* A Read has left bytes in the buffer and a Seek relative to the cursor
\* has moved back from the logical cursor, not from the file's position.
C21_Witness ==
    /\ Returned("Seek") /\ ~ret.err
    /\ call.whence = "SeekCurrent" /\ call.offset = 0 - 1
    /\ ret.buffered > 0
    /\ ret.pos = ret.at - 1 /\ reader.pos = ret.at - 1

====
